---- MODULE Spec2Model ----
\* Smart Library seat booking (src/code.py): the CSV record store, the
\* occupancy resolver read_active_bookings, the Tk foreground thread's handlers
\* and the auto_reset_thread sweeper, interleaved at the granularity of one
\* file access or one access to self.active.
EXTENDS Integers, Sequences, FiniteSets, TLC

\* ---------------------------------------------------------------- bounds
\* Seats the user clicks are 1..MaxSeat (the grid has NUM_SEATS buttons).
MaxSeat == 2
\* Clock resolution: ticks per second (datetime.now() has sub-second parts,
\* strftime("%Y-%m-%d %H:%M:%S") has none).
TicksPerSec == 2
\* The clock is observed during the first MaxMinutes minutes after start-up.
MaxMinutes == 2
\* Bookings confirmed in one run of the program.
MaxBookings == 2

\* ------------------------------------------------------ program constants
NUM_SEATS == 50
\* timedelta(minutes=duration): seconds in one minute of booked duration.
SecPerMin == 60

Seats == 1..MaxSeat
MinTicks == SecPerMin * TicksPerSec
MaxClock == MaxMinutes * MinTicks

\* ------------------------------------------------------------------ text
\* A text is a sequence of one-character strings.
Spaces == {" "}
DigitChars == <<"0", "1", "2", "3", "4", "5", "6", "7", "8", "9">>

IsDigit(c) == \E i \in 1..10 : DigitChars[i] = c
DigitVal(c) == (CHOOSE i \in 1..10 : DigitChars[i] = c) - 1

RECURSIVE LStrip(_)
LStrip(s) == IF s # <<>> /\ Head(s) \in Spaces THEN LStrip(Tail(s)) ELSE s

RECURSIVE RStrip(_)
RStrip(s) ==
  IF s # <<>> /\ s[Len(s)] \in Spaces THEN RStrip(SubSeq(s, 1, Len(s) - 1)) ELSE s

\* str.strip()
Strip(s) == RStrip(LStrip(s))

RECURSIVE DigitsVal(_)
DigitsVal(s) ==
  IF s = <<>> THEN 0
  ELSE 10 * DigitsVal(SubSeq(s, 1, Len(s) - 1)) + DigitVal(s[Len(s)])

Unsigned(s) == IF s # <<>> /\ Head(s) \in {"-", "+"} THEN Tail(s) ELSE s

\* int(text) succeeds: optional surrounding blanks, optional sign, digits.
IntOk(s) ==
  LET u == Unsigned(Strip(s))
  IN  u # <<>> /\ \A i \in 1..Len(u) : IsDigit(u[i])

\* int(text), for a text on which it succeeds.
IntVal(s) ==
  LET t == Strip(s)
      v == DigitsVal(Unsigned(t))
  IN  IF t # <<>> /\ Head(t) = "-" THEN 0 - v ELSE v

RECURSIVE NatStr(_)
NatStr(n) ==
  IF n < 10 THEN <<DigitChars[n + 1]>>
  ELSE NatStr(n \div 10) \o <<DigitChars[(n % 10) + 1]>>

\* str(n), as csv.DictWriter writes an int field.
IntStr(n) == IF n < 0 THEN <<"-">> \o NatStr(0 - n) ELSE NatStr(n)

\* ------------------------------------------------------------------ time
\* datetime.now().strftime("%Y-%m-%d %H:%M:%S"): the whole seconds of the
\* clock; the stored start_time text is modelled by that number of seconds.
FormatTime(t) == t \div TicksPerSec

\* datetime.strptime(text, "%Y-%m-%d %H:%M:%S")
ParseTime(s) == s * TicksPerSec

\* Mutant of EndTime: timedelta(seconds=duration).
EndTimeInSeconds(row) == ParseTime(row.start_time) + IntVal(row.duration) * TicksPerSec

\* start + timedelta(minutes=duration)
EndTime(row) == ParseTime(row.start_time) + IntVal(row.duration) * MinTicks

\* The instants at which the clock is observed: each minute boundary and one
\* tick after it.
ClockPoints ==
  {p \in 0..MaxClock :
     \E m \in 0..MaxMinutes : p \in {m * MinTicks, m * MinTicks + 1}}

\* ----------------------------------------------------------------- store
\* bookings.csv: whether the file exists, whether its header line is written,
\* and its data rows in file order. Every field of a row is text, except
\* start_time (see FormatTime).
AbsentFile == [exists |-> FALSE, hdr |-> FALSE, rows |-> <<>>]
EmptyStore == [exists |-> TRUE, hdr |-> TRUE, rows |-> <<>>]
\* open(BOOKINGS_CSV, "w") before anything is written: a zero-length file.
TruncatedFile == [exists |-> TRUE, hdr |-> FALSE, rows |-> <<>>]
Written(rows) == [exists |-> TRUE, hdr |-> TRUE, rows |-> rows]

\* An ensure_csv() that writes the header whether or not the file exists.
ensure_csv_always(f) == EmptyStore

\* ensure_csv(): writes the header only when the file does not exist.
ensure_csv(f) == IF ~f.exists THEN EmptyStore ELSE f

\* csv.DictReader over the file: its data rows (none without a header).
LoadRows(f) == IF f.exists /\ f.hdr THEN f.rows ELSE <<>>

\* active[key] = val on a dict kept in insertion order.
DictPut(d, e) ==
  IF \E i \in 1..Len(d) : d[i].seat = e.seat
  THEN [i \in 1..Len(d) |-> IF d[i].seat = e.seat THEN e ELSE d[i]]
  ELSE Append(d, e)

\* active.pop(seat_id, None)
DictPop(d, seat) == SelectSeq(d, LAMBDA e : e.seat # seat)

DictHas(d, seat) == \E i \in 1..Len(d) : d[i].seat = seat
DictGet(d, seat) == d[CHOOSE i \in 1..Len(d) : d[i].seat = seat]
DictKeys(d) == {d[i].seat : i \in 1..Len(d)}

\* Mutant of IsActive: now <= end.
IsActiveInclusive(row, now) == row.status = "Occupied" /\ now <= EndTime(row)

\* The test of read_active_bookings: status Occupied and now < end.
IsActive(row, now) == row.status = "Occupied" /\ now < EndTime(row)

ActiveEntry(row) ==
  [seat |-> IntVal(row.seat_id), end |-> EndTime(row), name |-> row.name,
   mobile |-> row.mobile, etime |-> row.entry_time]

RECURSIVE ActiveOf(_, _, _)
ActiveOf(rows, now, acc) ==
  IF rows = <<>> THEN acc
  ELSE ActiveOf(Tail(rows), now,
                IF IsActive(Head(rows), now) THEN DictPut(acc, ActiveEntry(Head(rows)))
                ELSE acc)

\* read_active_bookings() at clock value now.
read_active_bookings(f, now) == ActiveOf(LoadRows(f), now, <<>>)

NewRow(seat, name, mobile, duration, entry, start) ==
  [seat_id |-> IntStr(seat), name |-> name, mobile |-> mobile,
   duration |-> IntStr(duration), entry_time |-> entry, start_time |-> start,
   status |-> "Occupied"]

\* Mutant of AddBookingRows: the seat's old row is not dropped.
AddBookingRowsKeepOld(f, seat, name, mobile, duration, entry, start) ==
  Append(LoadRows(f), NewRow(seat, name, mobile, duration, entry, start))

\* add_booking(): the rows it will write (every other seat's row, then the new one).
AddBookingRows(f, seat, name, mobile, duration, entry, start) ==
  Append(SelectSeq(LoadRows(f), LAMBDA r : IntVal(r.seat_id) # seat),
         NewRow(seat, name, mobile, duration, entry, start))

\* An update_booking_status() that writes back only the rows of the seat.
UpdateStatusRowsOnlySeat(f, seat, status) ==
  LET mine == SelectSeq(LoadRows(f), LAMBDA r : IntVal(r.seat_id) = seat)
  IN  [i \in 1..Len(mine) |-> [mine[i] EXCEPT !.status = status]]

\* update_booking_status(): the rows it will write.
UpdateStatusRows(f, seat, status) ==
  LET rows == LoadRows(f)
  IN  [i \in 1..Len(rows) |->
         IF IntVal(rows[i].seat_id) = seat THEN [rows[i] EXCEPT !.status = status]
         ELSE rows[i]]

\* The sweeper's expiry test.
SweepExpired(now, end) == now >= end

\* confirm(): the try block accepts the four entry texts.
ValidBooking(name, mobile, duration, entry) ==
  /\ IntOk(Strip(duration))
  /\ Strip(name) # <<>>
  /\ Strip(mobile) # <<>>
  /\ Strip(entry) # <<>>

\* A range test that lets seat 0 through.
ValidSeatQueryFromZero(text) ==
  IntOk(text) /\ IntVal(text) >= 0 /\ IntVal(text) <= NUM_SEATS

\* search(): the try block accepts the seat text.
ValidSeatQuery(text) == IntOk(text) /\ IntVal(text) >= 1 /\ IntVal(text) <= NUM_SEATS

\* ----------------------------------------------------------------- state
VARIABLES
  clock,    \* datetime.now(), in ticks
  file,     \* bookings.csv
  active,   \* self.active: the cached result of read_active_bookings
  fgTodo,   \* the Tk main thread: the steps left of the handler it is running
  fg,       \* the running handler's local variables
  dialog,   \* the open popup or question, and the modal message box over it
  sw,       \* auto_reset_thread: its position and local variables
  notes,    \* the "Time Over" notifications the sweeper has scheduled, in order
  booked    \* how many bookings have been confirmed

vars == <<clock, file, active, fgTodo, fg, dialog, sw, notes, booked>>

\* ---------------------------------------------------------------- inputs
\* The booking popup's entries as the user fills them in: name, mobile,
\* duration, entry time.
BookingForms ==
  { <<<<" ", "A">>, <<"9">>, <<"1">>, <<"8">>>>,
    <<<<"B", " ">>, <<"9">>, <<" ", "2">>, <<"8">>>>,
    <<<<"A">>, <<"9">>, <<"0">>, <<"8">>>>,
    <<<<"B">>, <<"9">>, <<"-", "1">>, <<"8">>>>,
    <<<<>>, <<"9">>, <<"1">>, <<"8">>>>,
    <<<<" ">>, <<"9">>, <<"1">>, <<"8">>>>,
    <<<<"A">>, <<>>, <<"1">>, <<"8">>>>,
    <<<<"A">>, <<"9">>, <<"1">>, <<" ">>>>,
    <<<<"A">>, <<"9">>, <<>>, <<"8">>>>,
    <<<<"A">>, <<"9">>, <<"x">>, <<"8">>>>,
    <<<<"A">>, <<"9">>, <<"1", "x">>, <<"8">>>> }
\* The search popup's entry.
SeatQueries == {<<>>, <<"x">>, <<"0">>, <<"1">>, <<"5", "0">>, <<"5", "1">>}

NoLocals ==
  [seat |-> 0, name |-> <<>>, mobile |-> <<>>, duration |-> 0, entry |-> <<>>,
   at |-> 0, start |-> 0, rows |-> <<>>, pre |-> AbsentFile]
NoDialog == [kind |-> "none", seat |-> 0, msg |-> "", query |-> <<>>, result |-> ""]
SwIdle(pc, now) ==
  [pc |-> pc, now |-> now, todo |-> <<>>, seat |-> 0, end |-> 0, name |-> <<>>,
   rows |-> <<>>, pre |-> AbsentFile]

\* The handlers, as the steps each runs in order.
RefreshSteps == <<"rf_read">>
BookSteps ==
  <<"bk_read", "wr_open", "wr_flush", "bk_reread">> \o RefreshSteps \o <<"bk_done">>
ResetSeatSteps ==
  <<"up_read", "wr_open", "wr_flush", "pop">> \o RefreshSteps \o <<"list">>
ResetAllSteps ==
  <<"ra_ensure", "ra_clear">> \o RefreshSteps \o <<"ra_done">>

Init ==
  /\ clock = 0
  /\ file \in {AbsentFile, EmptyStore}
  /\ active = <<>>
  /\ fgTodo = <<"main">>
  /\ fg = NoLocals
  /\ dialog = NoDialog
  /\ sw = SwIdle("off", 0)
  /\ notes = <<>>
  /\ booked = 0

\* ----------------------------------------------------------- environment
\* Time passes. A handler of the main thread and one pass of the sweeper's
\* for loop each take far less than the half second between two clock points,
\* so the clock moves on between them, not inside them.
Tick ==
  /\ fgTodo \in {<<>>, <<"main">>}
  /\ sw.pc \in {"off", "loop", "sleep", "dead"}
  /\ \E p \in ClockPoints : p > clock /\ clock' = p
  /\ UNCHANGED <<file, active, fgTodo, fg, dialog, sw, notes, booked>>

\* ------------------------------------------------------- foreground steps
FgAt(label) == fgTodo # <<>> /\ Head(fgTodo) = label
FgIdle == fgTodo = <<>>
\* The handler moves on; its locals die with it when it returns.
FgAdvance(locals) ==
  /\ fgTodo' = Tail(fgTodo)
  /\ fg' = IF Tail(fgTodo) = <<>> THEN NoLocals ELSE locals

\* __main__ and __init__: ensure_csv(), the first reads, and the sweeper's start.
Startup ==
  /\ FgAt("main")
  /\ file' = ensure_csv(file)
  /\ active' = read_active_bookings(file', clock)
  /\ sw' = SwIdle("loop", 0)
  /\ FgAdvance(fg)
  /\ UNCHANGED <<clock, dialog, notes, booked>>

\* auto_refresh(): the periodic timer fires (also inside a dialog's event loop).
AutoRefresh ==
  /\ FgIdle
  /\ sw.pc # "off"
  /\ fgTodo' = RefreshSteps
  /\ UNCHANGED <<clock, file, active, fg, dialog, sw, notes, booked>>

\* Mutant of RefreshRead: the refresh also marks the expired rows Free.
RefreshReadFreesExpired ==
  /\ FgAt("rf_read")
  /\ active' = read_active_bookings(file, clock)
  /\ file' = [file EXCEPT !.rows =
                [i \in 1..Len(file.rows) |->
                   IF file.rows[i].status = "Occupied" /\ clock >= EndTime(file.rows[i])
                   THEN [file.rows[i] EXCEPT !.status = "Free"]
                   ELSE file.rows[i]]]
  /\ FgAdvance(fg)
  /\ UNCHANGED <<clock, dialog, sw, notes, booked>>

\* refresh_ui(): self.active = read_active_bookings(), the buttons repainted
\* from it, and refresh_booking_list() (which reads the store to render it).
RefreshRead ==
  /\ FgAt("rf_read")
  /\ active' = read_active_bookings(file, clock)
  /\ FgAdvance(fg)
  /\ UNCHANGED <<clock, file, dialog, sw, notes, booked>>

\* reset_seat(), line 194: refresh_booking_list() reads the store and renders
\* the text box.
RefreshList ==
  /\ FgAt("list")
  /\ FgAdvance(fg)
  /\ UNCHANGED <<clock, file, active, dialog, sw, notes, booked>>

\* book_or_reset(seat_id): the decision taken from self.active.
ClickSeat(s) ==
  /\ FgIdle
  /\ sw.pc # "off"
  /\ dialog = NoDialog
  /\ dialog' = [NoDialog EXCEPT !.kind = IF DictHas(active, s) THEN "ask_reset" ELSE "book",
                                !.seat = s]
  /\ UNCHANGED <<clock, file, active, fgTodo, fg, sw, notes, booked>>

\* The answer to "Seat s is occupied. Reset it?"
AnswerReset(yes) ==
  /\ FgIdle
  /\ dialog.kind = "ask_reset"
  /\ dialog' = NoDialog
  /\ IF yes
     THEN /\ fgTodo' = ResetSeatSteps
          /\ fg' = [NoLocals EXCEPT !.seat = dialog.seat]
     ELSE UNCHANGED <<fgTodo, fg>>
  /\ UNCHANGED <<clock, file, active, sw, notes, booked>>

\* confirm() of the booking popup, with the four entry texts, up to line 61
\* of add_booking(): start_time = datetime.now().strftime(...).
ConfirmBooking(name, mobile, duration, entry) ==
  /\ FgIdle
  /\ dialog.kind = "book"
  /\ dialog.msg = ""
  /\ booked < MaxBookings
  /\ IF ValidBooking(name, mobile, duration, entry)
     THEN /\ fgTodo' = BookSteps
          /\ fg' = [NoLocals EXCEPT !.seat = dialog.seat, !.name = Strip(name),
                                    !.mobile = Strip(mobile),
                                    !.duration = IntVal(Strip(duration)),
                                    !.entry = Strip(entry),
                                    !.at = clock,
                                    !.start = FormatTime(clock)]
          /\ booked' = booked + 1
          /\ UNCHANGED dialog
     ELSE /\ dialog' = [dialog EXCEPT !.msg = "Invalid input."]
          /\ UNCHANGED <<fgTodo, fg, booked>>
  /\ UNCHANGED <<clock, file, active, sw, notes>>

\* The popup's Cancel button.
CancelPopup ==
  /\ FgIdle
  /\ dialog.kind \in {"book", "search"}
  /\ dialog.msg = ""
  /\ dialog' = NoDialog
  /\ UNCHANGED <<clock, file, active, fgTodo, fg, sw, notes, booked>>

\* The modal message box is closed.
DismissMessage ==
  /\ FgIdle
  /\ dialog.msg # ""
  /\ dialog' = [dialog EXCEPT !.msg = ""]
  /\ UNCHANGED <<clock, file, active, fgTodo, fg, sw, notes, booked>>

\* add_booking(), lines 62-77: read the rows, drop the seat's, append the new one.
BookRead ==
  /\ FgAt("bk_read")
  /\ FgAdvance([fg EXCEPT !.rows = AddBookingRows(file, fg.seat, fg.name, fg.mobile,
                                                  fg.duration, fg.entry, fg.start)])
  /\ UNCHANGED <<clock, file, active, dialog, sw, notes, booked>>

\* open(BOOKINGS_CSV, "w"), lines 78 and 93: the file is truncated.
FgWriteOpen ==
  /\ FgAt("wr_open")
  /\ file' = TruncatedFile
  /\ FgAdvance([fg EXCEPT !.pre = file])
  /\ UNCHANGED <<clock, active, dialog, sw, notes, booked>>

\* writeheader(), writerows(rows) and the close that flushes them.
FgWriteFlush ==
  /\ FgAt("wr_flush")
  /\ file' = Written(fg.rows)
  /\ FgAdvance(fg)
  /\ UNCHANGED <<clock, active, dialog, sw, notes, booked>>

\* confirm(), line 180: self.active = read_active_bookings()
BookReread ==
  /\ FgAt("bk_reread")
  /\ active' = read_active_bookings(file, clock)
  /\ FgAdvance(fg)
  /\ UNCHANGED <<clock, file, dialog, sw, notes, booked>>

\* confirm(), lines 182-184: refresh_booking_list(), popup.destroy() and the
\* "Booked" message.
BookDone ==
  /\ FgAt("bk_done")
  /\ dialog' = [NoDialog EXCEPT !.msg = "Booked"]
  /\ FgAdvance(fg)
  /\ UNCHANGED <<clock, file, active, sw, notes, booked>>

\* reset_seat(): update_booking_status(seat_id, "Free"), lines 85-92.
ResetRead ==
  /\ FgAt("up_read")
  /\ FgAdvance([fg EXCEPT !.rows = UpdateStatusRows(file, fg.seat, "Free")])
  /\ UNCHANGED <<clock, file, active, dialog, sw, notes, booked>>

\* reset_seat(), line 192: self.active.pop(seat_id, None)
ResetPop ==
  /\ FgAt("pop")
  /\ active' = DictPop(active, fg.seat)
  /\ FgAdvance(fg)
  /\ UNCHANGED <<clock, file, dialog, sw, notes, booked>>

\* The "Reset All Seats" button: the question is asked.
ClickResetAll ==
  /\ FgIdle
  /\ sw.pc # "off"
  /\ dialog = NoDialog
  /\ dialog' = [NoDialog EXCEPT !.kind = "ask_all"]
  /\ UNCHANGED <<clock, file, active, fgTodo, fg, sw, notes, booked>>

AnswerResetAll(yes) ==
  /\ FgIdle
  /\ dialog.kind = "ask_all"
  /\ dialog' = NoDialog
  /\ fgTodo' = IF yes THEN ResetAllSteps ELSE fgTodo
  /\ UNCHANGED <<clock, file, active, fg, sw, notes, booked>>

\* reset_all(), line 198: ensure_csv()
ResetAllEnsure ==
  /\ FgAt("ra_ensure")
  /\ file' = ensure_csv(file)
  /\ FgAdvance(fg)
  /\ UNCHANGED <<clock, active, dialog, sw, notes, booked>>

\* reset_all(), line 199: self.active.clear()
ResetAllClear ==
  /\ FgAt("ra_clear")
  /\ active' = <<>>
  /\ FgAdvance(fg)
  /\ UNCHANGED <<clock, file, dialog, sw, notes, booked>>

\* reset_all(), lines 201-202: refresh_booking_list() and the "All seats reset
\* successfully!" message.
ResetAllDone ==
  /\ FgAt("ra_done")
  /\ dialog' = [NoDialog EXCEPT !.msg = "Reset"]
  /\ FgAdvance(fg)
  /\ UNCHANGED <<clock, file, active, sw, notes, booked>>

\* The "Search Seat" button opens the search popup.
ClickSearch ==
  /\ FgIdle
  /\ sw.pc # "off"
  /\ dialog = NoDialog
  /\ dialog' = [NoDialog EXCEPT !.kind = "search"]
  /\ UNCHANGED <<clock, file, active, fgTodo, fg, sw, notes, booked>>

\* search(), with the text of the entry.
SearchSeat(text) ==
  /\ FgIdle
  /\ dialog.kind = "search"
  /\ dialog.msg = ""
  /\ dialog' =
       IF ~ValidSeatQuery(text)
       THEN [dialog EXCEPT !.query = text, !.msg = "Enter a valid seat number"]
       ELSE [dialog EXCEPT
               !.query = text,
               !.seat = IntVal(text),
               !.result = IF DictHas(read_active_bookings(file, clock), IntVal(text))
                          THEN "OCCUPIED" ELSE "FREE"]
  /\ UNCHANGED <<clock, file, active, fgTodo, fg, sw, notes, booked>>

\* ---------------------------------------------------------- sweeper steps
\* The for loop of auto_reset_thread over the snapshot: the next item whose
\* test now >= end succeeds is taken up; with none left the tick ends in sleep.
SwContinue(now, todo) ==
  IF \E i \in 1..Len(todo) : SweepExpired(now, todo[i].end)
  THEN LET k == CHOOSE i \in 1..Len(todo) :
                  /\ SweepExpired(now, todo[i].end)
                  /\ \A j \in 1..(i - 1) : ~SweepExpired(now, todo[j].end)
       IN  [SwIdle("upd_read", now) EXCEPT
              !.seat = todo[k].seat, !.end = todo[k].end, !.name = todo[k].name,
              !.todo = SubSeq(todo, k + 1, Len(todo))]
  ELSE SwIdle("sleep", now)

\* Lines 207-209: now = datetime.now(); list(self.active.items())
SwLoop ==
  /\ sw.pc \in {"loop", "sleep"}
  /\ sw' = SwContinue(clock, active)
  /\ UNCHANGED <<clock, file, active, fgTodo, fg, dialog, notes, booked>>

\* Line 210: update_booking_status(seat_id, "Free"), its read (lines 85-92).
SwUpdRead ==
  /\ sw.pc = "upd_read"
  /\ sw' = [sw EXCEPT !.pc = "upd_open",
                      !.rows = UpdateStatusRows(file, sw.seat, "Free")]
  /\ UNCHANGED <<clock, file, active, fgTodo, fg, dialog, notes, booked>>

\* Line 93: open(BOOKINGS_CSV, "w")
SwUpdOpen ==
  /\ sw.pc = "upd_open"
  /\ file' = TruncatedFile
  /\ sw' = [sw EXCEPT !.pc = "upd_flush", !.pre = file]
  /\ UNCHANGED <<clock, active, fgTodo, fg, dialog, notes, booked>>

\* Lines 94-96: the rows are written.
SwUpdFlush ==
  /\ sw.pc = "upd_flush"
  /\ file' = Written(sw.rows)
  /\ sw' = [sw EXCEPT !.pc = "pop"]
  /\ UNCHANGED <<clock, active, fgTodo, fg, dialog, notes, booked>>

\* Lines 211-214 without the pop: the expired entry stays in self.active.
SwPopKeepsEntry ==
  /\ sw.pc = "pop"
  /\ notes' = Append(notes, [seat |-> sw.seat, name |-> sw.name, end |-> sw.end])
  /\ sw' = SwContinue(sw.now, sw.todo)
  /\ UNCHANGED <<clock, file, active, fgTodo, fg, dialog, booked>>

\* Lines 211-214: self.active.pop(seat_id, None), the "Time Over" message
\* scheduled with (seat_id, name), then on with the loop. The end field of a
\* note is not part of the message: it tells the bookings of a seat apart.
SwPop ==
  /\ sw.pc = "pop"
  /\ active' = DictPop(active, sw.seat)
  /\ notes' = Append(notes, [seat |-> sw.seat, name |-> sw.name, end |-> sw.end])
  /\ sw' = SwContinue(sw.now, sw.todo)
  /\ UNCHANGED <<clock, file, fgTodo, fg, dialog, booked>>

\* A store access of update_booking_status raises (OSError): nothing in
\* auto_reset_thread catches it, and the thread ends.
SwFail ==
  /\ sw.pc \in {"upd_read", "upd_open", "upd_flush"}
  /\ sw' = SwIdle("dead", sw.now)
  /\ UNCHANGED <<clock, file, active, fgTodo, fg, dialog, notes, booked>>

\* ------------------------------------------------------------------ spec
Next ==
  \/ Tick
  \/ Startup
  \/ AutoRefresh
  \/ RefreshRead
  \/ RefreshList
  \/ \E s \in Seats : ClickSeat(s)
  \/ \E yes \in BOOLEAN : AnswerReset(yes)
  \/ \E f \in BookingForms : ConfirmBooking(f[1], f[2], f[3], f[4])
  \/ CancelPopup
  \/ DismissMessage
  \/ BookRead
  \/ FgWriteOpen
  \/ FgWriteFlush
  \/ BookReread
  \/ BookDone
  \/ ResetRead
  \/ ResetPop
  \/ ClickResetAll
  \/ \E yes \in BOOLEAN : AnswerResetAll(yes)
  \/ ResetAllEnsure
  \/ ResetAllClear
  \/ ResetAllDone
  \/ ClickSearch
  \/ \E t \in SeatQueries : SearchSeat(t)
  \/ SwLoop
  \/ SwUpdRead
  \/ SwUpdOpen
  \/ SwUpdFlush
  \/ SwPop
  \/ SwFail

Spec == Init /\ [][Next]_vars

\* ------------------------------------------------------ steps and states
\* Steps of the foreground thread, recognised by the label they leave.
FgStep(labels) == fgTodo # <<>> /\ Head(fgTodo) \in labels /\ fgTodo' = Tail(fgTodo)

\* add_booking()'s write completes (its wr_flush is followed by line 180).
BookingWritten ==
  /\ FgStep({"wr_flush"})
  /\ Len(fgTodo) > 1
  /\ fgTodo[2] = "bk_reread"

Rows == LoadRows(file)
RowSeat(r) == IntVal(r.seat_id)
RowsOf(f, seat) == SelectSeq(LoadRows(f), LAMBDA r : RowSeat(r) = seat)
ExpiredOccupied(r, now) == r.status = "Occupied" /\ now >= EndTime(r)

\* Between an operation's read of the store and the end of its write-back.
FgMidRewrite == fgTodo # <<>> /\ Head(fgTodo) \in {"wr_open", "wr_flush"}
SwMidRewrite == sw.pc \in {"upd_open", "upd_flush"}

\* ---------------------------------------------------------------- claims

\* C1: after reset-all has run (ensure_csv, clear, refresh), the store holds
\* zero records, active_bookings(now) is empty and the refreshed cache is empty.
C1_ResetAllEmptiesStore ==
  (fgTodo # <<>> /\ Head(fgTodo) = "ra_done") =>
    /\ file.rows = <<>>
    /\ read_active_bookings(file, clock) = <<>>
    /\ active = <<>>

\* C2: a sweep tick that starts when a stored Occupied booking (duration > 0)
\* has reached its end_time does not end with that booking still Occupied.
C2_ExpiredFreedByOneTick ==
  [][(sw.pc \in {"loop", "sleep"} /\ sw'.pc = "sleep" /\ sw' # sw) =>
       \A i \in 1..Len(Rows) :
         ~(ExpiredOccupied(Rows[i], clock) /\ IntVal(Rows[i].duration) > 0)]_vars

\* C3: no booking with an empty name, mobile or entry time, or with a
\* duration <= 0, passes confirm(): the store never holds such a record.
C3_InvalidBookingRejected ==
  \A i \in 1..Len(Rows) :
    /\ Rows[i].name # <<>>
    /\ Rows[i].mobile # <<>>
    /\ Rows[i].entry_time # <<>>
    /\ IntVal(Rows[i].duration) > 0

\* C4 as stated: right after upsert with duration > 0 and no clock advance,
\* active_bookings(now) maps the seat to end_time = clock at upsert + duration
\* and to the name, mobile and entry_time given.
C4_UpsertActiveAtClock ==
  [][(BookingWritten /\ fg.duration > 0 /\ clock' = fg.at) =>
       LET a == read_active_bookings(file', clock')
       IN  /\ DictHas(a, fg.seat)
           /\ DictGet(a, fg.seat) =
                [seat |-> fg.seat, end |-> fg.at + fg.duration * MinTicks,
                 name |-> fg.name, mobile |-> fg.mobile, etime |-> fg.entry]]_vars

\* C4 amended: right after upsert with duration > 0 and no clock advance,
\* active_bookings(now) maps the seat to end_time = start_time + duration,
\* where start_time is the clock at upsert cut to whole seconds, and to the
\* name, mobile and entry_time given.
C4_UpsertActiveTruncated ==
  [][(BookingWritten /\ fg.duration > 0 /\ clock' = fg.at) =>
       LET a == read_active_bookings(file', clock')
       IN  /\ DictHas(a, fg.seat)
           /\ DictGet(a, fg.seat) =
                [seat |-> fg.seat,
                 end |-> (fg.at \div TicksPerSec) * TicksPerSec + fg.duration * MinTicks,
                 name |-> fg.name, mobile |-> fg.mobile, etime |-> fg.entry]]_vars

\* C4 witness: an upsert made at a clock value with a sub-second part has
\* just been written, the clock has not advanced, and the seat is active.
C4_Witness ==
  /\ fgTodo # <<>> /\ Head(fgTodo) = "bk_reread"
  /\ fg.duration > 0
  /\ clock = fg.at
  /\ fg.at % TicksPerSec # 0
  /\ DictHas(read_active_bookings(file, clock), fg.seat)

C6_ExpiryBoundary ==
  LET a == read_active_bookings(file, clock)
  IN  \A i \in 1..Len(Rows) :
        LET r == Rows[i]
        IN  /\ DictHas(a, RowSeat(r)) <=> (r.status = "Occupied" /\ clock < EndTime(r))
            /\ r.status = "Occupied" =>
                 (SweepExpired(clock, EndTime(r)) <=> ~DictHas(a, RowSeat(r)))

\* C6 witness: an Occupied record whose end_time equals now is stored, and
\* active_bookings(now) does not report it.
C6_Witness ==
  \E i \in 1..Len(Rows) :
    /\ Rows[i].status = "Occupied"
    /\ IntVal(Rows[i].duration) > 0
    /\ EndTime(Rows[i]) = clock
    /\ ~DictHas(read_active_bookings(file, clock), RowSeat(Rows[i]))

\* C7: the sweeper thread never terminates, whatever store access fails.
C7_SweeperSurvivesFailure == sw.pc # "dead"

\* C8: no store operation of one thread starts while the other thread is
\* between the read and the end of the write-back of a store rewrite.
C8_StoreOpsExclusive ==
  [][/\ ~(SwMidRewrite /\ FgStep({"rf_read", "bk_reread", "list", "bk_read",
                                   "up_read", "ra_ensure"}))
     /\ ~(FgMidRewrite /\ sw.pc = "upd_read" /\ sw'.pc = "upd_open")]_vars

\* C9: a read by the foreground thread made while the sweeper's rewrite is in
\* progress sees the record set from before the rewrite or the one it writes.
C9_ReadsSeeWholeStore ==
  [][(sw.pc = "upd_flush" /\ FgStep({"rf_read", "bk_reread", "list"})) =>
       LoadRows(file) \in {LoadRows(sw.pre), sw.rows}]_vars

\* C10: a refresh, a booking-list refresh or a seat search leaves the store as
\* it is; a stored Occupied record with end_time <= now is left out of the
\* refreshed map and stays Occupied.
C10_ReadPathsDoNotWrite ==
  [][(\/ FgStep({"rf_read", "bk_reread", "list"})
      \/ (dialog.kind = "search" /\ dialog.msg = "" /\ dialog' # dialog)) =>
       /\ file' = file
       /\ FgStep({"rf_read", "bk_reread"}) =>
            \A i \in 1..Len(LoadRows(file')) :
              ExpiredOccupied(LoadRows(file')[i], clock) =>
                ~DictHas(active', RowSeat(LoadRows(file')[i]))]_vars

\* C10 witness: the refresh at the end of a booking has run while another
\* seat's Occupied record was past its end_time; the record is still
\* Occupied in the store and absent from the refreshed map.
C10_Witness ==
  /\ fgTodo = <<"bk_done">>
  /\ \E i \in 1..Len(Rows) :
       /\ ExpiredOccupied(Rows[i], clock)
       /\ IntVal(Rows[i].duration) > 0
       /\ RowSeat(Rows[i]) # fg.seat
       /\ ~DictHas(active, RowSeat(Rows[i]))

\* A click on a seat button being dispatched (lines 143-148).
SeatClicked == dialog = NoDialog /\ dialog'.kind \in {"ask_reset", "book"}

\* The sweeper taking its snapshot of self.active (lines 207-209).
SweeperSnapshot == sw.pc \in {"loop", "sleep"} /\ sw' # sw

\* C11: at every decision taken from the in-memory map (book or reset on a
\* click, the sweeper's choice of the seats to free) the map equals
\* active_bookings derived from the store at that instant.
C11_CacheEqualsStoreAtDecision ==
  [][(SeatClicked \/ SweeperSnapshot) =>
       active = read_active_bookings(file, clock)]_vars

\* update_booking_status(seat, status) as one uninterrupted store operation.
SetStatus(f, seat, status) == Written(UpdateStatusRows(f, seat, status))

\* What reset_all() does to the store (line 198).
ResetAllStore(f) == ensure_csv(f)

\* Applying set_status(s, Free) or reset-all a second time changes nothing.
TwiceIsOnce ==
  /\ file.exists =>
       \A s \in Seats :
         SetStatus(SetStatus(file, s, "Free"), s, "Free") = SetStatus(file, s, "Free")
  /\ ResetAllStore(ResetAllStore(file)) = ResetAllStore(file)

\* C12: for every seat and every store state, set_status(s, Free) applied
\* twice leaves the store as applying it once does; reset-all applied twice
\* leaves the same store as applying it once, and that store is empty.
C12_ResetIdempotent ==
  /\ TwiceIsOnce
  /\ ResetAllStore(ResetAllStore(file)).rows = <<>>

NoteEmitted == notes' # notes

SearchPressed ==
  dialog.kind = "search" /\ dialog.msg = "" /\ dialog'.kind = "search" /\ dialog' # dialog

\* C15: a search whose seat text is not a number or is outside 1..50 gives a
\* validation error and no lookup result; a search for a seat in range says
\* OCCUPIED exactly when the seat is in active_bookings(now) and FREE
\* otherwise; neither changes the store.
C15_SearchValidatesSeat ==
  [][SearchPressed =>
       LET q == dialog'.query
           inRange == IntOk(q) /\ IntVal(q) \in 1..NUM_SEATS
       IN  /\ file' = file
           /\ ~inRange =>
                /\ dialog'.msg = "Enter a valid seat number"
                /\ dialog'.result = dialog.result
                /\ dialog'.seat = dialog.seat
           /\ inRange =>
                /\ dialog'.msg = ""
                /\ dialog'.seat = IntVal(q)
                /\ dialog'.result \in {"OCCUPIED", "FREE"}
                /\ dialog'.result = "OCCUPIED" <=>
                     \E i \in 1..Len(Rows) :
                       /\ IntVal(Rows[i].seat_id) = IntVal(q)
                       /\ Rows[i].status = "Occupied"
                       /\ clock < EndTime(Rows[i])]_vars

\* C15 witness: a search for seat 1 has answered OCCUPIED, and the next
\* search, for seat 51, is turned down with the error message.
C15_Witness ==
  /\ dialog.kind = "search"
  /\ dialog.query = <<"5", "1">>
  /\ dialog.msg = "Enter a valid seat number"
  /\ dialog.seat = 1
  /\ dialog.result = "OCCUPIED"

\* add_booking(...) as one uninterrupted store operation.
Upsert(f, seat, name, mobile, duration, entry, start) ==
  Written(AddBookingRows(f, seat, name, mobile, duration, entry, start))

\* The rows of f that belong to other seats than seat, in file order.
OtherRows(f, seat) == SelectSeq(LoadRows(f), LAMBDA r : RowSeat(r) # seat)

\* set_status and upsert applied to the store f touch the one seat only.
SingleSeatWritesOn(f) ==
  f.exists =>
    \A s \in Seats :
      /\ \A st \in {"Free", "Occupied"} :
           LET before == LoadRows(f)
               after == LoadRows(SetStatus(f, s, st))
           IN  /\ Len(after) = Len(before)
               /\ \A i \in 1..Len(before) :
                    /\ \A k \in DOMAIN before[i] \ {"status"} : after[i][k] = before[i][k]
                    /\ after[i].status = IF RowSeat(before[i]) = s THEN st
                                         ELSE before[i].status
               /\ RowsOf(f, s) = <<>> => after = before
      /\ OtherRows(Upsert(f, s, <<"Z">>, <<"7">>, 1, <<"6">>, FormatTime(clock)), s)
           = OtherRows(f, s)

\* C16: run on its own, set_status(s, st) changes the status field of the
\* record of s and nothing else, and changes no record when s has none;
\* upsert(s, ...) leaves the record of every other seat as it was. Stated of
\* the initial store and of every store the program goes on to produce.
C16_SingleSeatWrites ==
  /\ SingleSeatWritesOn(file)
  /\ [][file' # file => SingleSeatWritesOn(file')]_vars

\* C16 witness: reset_seat() has written the store back while another seat's
\* Occupied record was in it: the seat's record is Free, the other is intact.
C16_Witness ==
  /\ FgAt("pop")
  /\ file = Written(fg.rows)
  /\ fg.pre = SetStatus(fg.pre, fg.seat, "Occupied")
  /\ file = SetStatus(fg.pre, fg.seat, "Free")
  /\ RowsOf(file, fg.seat) # <<>>
  /\ \E i \in 1..Len(Rows) : RowSeat(Rows[i]) # fg.seat /\ Rows[i].status = "Occupied"

\* The sweeper's rewrite of the store taking effect (lines 94-96 under 210).
SweeperWrites == sw.pc = "upd_flush" /\ sw'.pc = "pop"

\* C17: whenever the sweeper's set_status(seat, Free) write takes effect, the
\* record it leaves Free is the booking the sweeper judged expired, and it is
\* past its end_time at the sweeper's now; a booking made for the seat after
\* the sweeper's snapshot is never set Free by the sweeper.
C17_SweeperFreesOnlyExpired ==
  [][SweeperWrites =>
       \A i \in 1..Len(LoadRows(file')) :
         LET r == LoadRows(file')[i]
         IN  RowSeat(r) = sw.seat =>
               /\ r.status = "Free"
               /\ r.name = sw.name
               /\ EndTime(r) = sw.end
               /\ SweepExpired(sw.now, EndTime(r))]_vars

\* C18: a booking written by a completed upsert stays in the store until the
\* next upsert, reset or reset-all of its seat or its own expiry sweep: the
\* sweeper's write for one seat puts back every Occupied record of the other
\* seats that the store held when the write began.
C18_NoLostBooking ==
  [][SweeperWrites =>
       \A i \in 1..Len(LoadRows(sw.pre)) :
         LET r == LoadRows(sw.pre)[i]
         IN  (RowSeat(r) # sw.seat /\ r.status = "Occupied" /\ IntVal(r.duration) > 0) =>
               \E j \in 1..Len(LoadRows(file')) : LoadRows(file')[j] = r]_vars

\* The store f holds a record of the seat with the given status.
HasStatus(f, seat, status) ==
  \E i \in 1..Len(LoadRows(f)) :
    RowSeat(LoadRows(f)[i]) = seat /\ LoadRows(f)[i].status = status

\* C19: once the stored status of a seat is Free it stays Free until a new
\* upsert for that seat: a rewrite that begins on a store showing the seat
\* Free leaves it Occupied only when it is add_booking's write for that seat.
C19_FreeStaysFree ==
  [][/\ SweeperWrites =>
          \A s \in Seats :
            HasStatus(sw.pre, s, "Free") => ~HasStatus(file', s, "Occupied")
     /\ FgStep({"wr_flush"}) =>
          \A s \in Seats :
            (HasStatus(fg.pre, s, "Free") /\ HasStatus(file', s, "Occupied")) =>
              (BookingWritten /\ fg.seat = s)]_vars

====
